---- MODULE Spec2Model ----
(***************************************************************************)
(* Lyric sync application (app.py): the LRC formatter and parser, the      *)
(* upload processing loop, the session state and the playback sync loop.   *)
(*                                                                         *)
(* Conventions of the model:                                               *)
(*  - a Python string is a sequence of one-character strings;              *)
(*  - a time in seconds (a Python float) is an integer number of           *)
(*    milliseconds; RoundCs reproduces the rounding that the format        *)
(*    specification ".2f" applies to the binary double nearest to the      *)
(*    decimal value;                                                       *)
(*  - list indices are the 0-based Python indices, NoneIdx stands for      *)
(*    None.                                                                *)
(***************************************************************************)
EXTENDS Integers, Sequences, FiniteSets, TLC

VARIABLES
    \* st.session_state
    processed_songs, current_song_index, sync_started, start_time,
    \* widgets: the uploader's files, the rendered buttons, the pending click
    uploaded_files, song_buttons, play_button, play_clicked,
    \* the running script: position and locals of the upload section
    pc, processed_names, did_process_a_file, file_i,
    \* locals of the sync loop and what it handed to the renderer
    lyrics_data, loop_start_time, progress, current_lyric, highlighted,
    \* environment: time.time(), reported errors, transcription calls
    now, error_log, transcribe_log,
    \* the formatter/parser exercised on their own
    lrc_source, seg_in, raw_in, lrc_text, lyrics_out, lrc_pc

appVars == <<processed_songs, current_song_index, sync_started, start_time,
             uploaded_files, song_buttons, play_button, play_clicked,
             pc, processed_names, did_process_a_file, file_i,
             lyrics_data, loop_start_time, progress, current_lyric, highlighted,
             now, error_log, transcribe_log>>

lrcVars == <<lrc_source, seg_in, raw_in, lrc_text, lyrics_out, lrc_pc>>

vars == <<appVars, lrcVars>>

(***************************************************************************)
(* Bounds                                                                  *)
(***************************************************************************)
MaxSegs == 2
MaxRawLines == 3
MaxTrack == 3

(***************************************************************************)
(* Strings and numbers                                                     *)
(***************************************************************************)
DigitChars == <<"0", "1", "2", "3", "4", "5", "6", "7", "8", "9">>

IsDigit(c) == \E i \in 1..10 : DigitChars[i] = c

DigitVal(c) == (CHOOSE i \in 1..10 : DigitChars[i] = c) - 1

\* str.isspace() on the characters of the model's alphabet
IsSpace(c) == c \in {" ", "\t", "\n", "\r"}

\* the characters str.splitlines() breaks a line at
IsLineBreak(c) == c \in {"\n", "\r"}

RECURSIVE LStrip(_)
LStrip(s) ==
    IF s = <<>> THEN <<>>
    ELSE IF IsSpace(Head(s)) THEN LStrip(Tail(s)) ELSE s

RECURSIVE RStrip(_)
RStrip(s) ==
    IF s = <<>> THEN <<>>
    ELSE IF IsSpace(s[Len(s)]) THEN RStrip(SubSeq(s, 1, Len(s) - 1)) ELSE s

\* str.strip()
Strip(s) == RStrip(LStrip(s))

\* the decimal digits of a natural number, as "%d" prints them
RECURSIVE Digits(_)
Digits(n) ==
    IF n < 10 THEN <<DigitChars[n + 1]>>
    ELSE Digits(n \div 10) \o <<DigitChars[(n % 10) + 1]>>

\* left padding with "0" up to a minimum width (the 0 flag of a format spec)
RECURSIVE ZeroPad(_, _)
ZeroPad(s, width) ==
    IF Len(s) >= width THEN s ELSE ZeroPad(<<"0">> \o s, width)

RECURSIVE Pow2Mod1000(_)
Pow2Mod1000(p) == IF p = 0 THEN 1 ELSE (2 * Pow2Mod1000(p - 1)) % 1000

\* floor(log2(ms / 1000)) for ms >= 1000
RECURSIVE Log2Up(_, _)
Log2Up(ms, e) == IF 1000 * (2 * e) <= ms THEN 1 + Log2Up(ms, 2 * e) ELSE 0

\* -floor(log2(ms / 1000)) for 0 < ms < 1000
RECURSIVE Log2Down(_, _)
Log2Down(ms, f) == IF ms * f < 1000 THEN 1 + Log2Down(ms, 2 * f) ELSE 0

\* The double nearest to ms/1000 is m * 2^-p with 2^52 <= m < 2^53; it lies
\* above ms/1000 exactly when the remainder of ms * 2^p by 1000 exceeds 500.
DoubleAbove(ms) ==
    LET p == IF ms >= 1000 THEN 52 - Log2Up(ms, 1) ELSE 52 + Log2Down(ms, 1)
        r == ((ms % 1000) * Pow2Mod1000(p)) % 1000
    IN  r > 500

\* seconds (the remainder of divmod(start, 60)) rounded to centiseconds as
\* format(seconds, ".2f") rounds the double: correctly rounded, exact ties
\* (multiples of 1/8 s) to even.
RoundCs(start) ==
    LET s == start % 60000
        q == s \div 10
        r == s % 10
    IN  IF r < 5 THEN q
        ELSE IF r > 5 THEN q + 1
        ELSE IF start % 125 = 0 THEN (IF q % 2 = 0 THEN q ELSE q + 1)
        ELSE IF DoubleAbove(start) THEN q + 1 ELSE q

\* f"{int(minutes):02d}"
FormatMinutes(start) == ZeroPad(Digits(start \div 60000), 2)

\* f"{seconds:05.2f}"
FormatSeconds(start) ==
    LET cs == RoundCs(start)
    IN  ZeroPad(Digits(cs \div 100) \o <<".">> \o ZeroPad(Digits(cs % 100), 2), 5)

(***************************************************************************)
(* generate_lrc_content                                                    *)
(***************************************************************************)
FormatLine(segment) ==
    <<"[">> \o FormatMinutes(segment.start) \o <<":">>
            \o FormatSeconds(segment.start) \o <<"]">> \o Strip(segment.text)

\* "\n".join(lrc_lines)
RECURSIVE JoinLines(_, _)
JoinLines(lines, sep) ==
    IF lines = <<>> THEN <<>>
    ELSE IF Len(lines) = 1 THEN lines[1]
    ELSE lines[1] \o sep \o JoinLines(Tail(lines), sep)

generate_lrc_content(segments) ==
    JoinLines([i \in 1..Len(segments) |-> FormatLine(segments[i])], <<"\n">>)

(***************************************************************************)
(* parse_lrc                                                               *)
(***************************************************************************)
\* str.splitlines(): the scan keeps the line collected so far in cur; a
\* break ends it ("\r\n" counts once); a last line without break is kept.
RECURSIVE SplitFrom(_, _, _, _)
SplitFrom(s, i, cur, acc) ==
    IF i > Len(s) THEN (IF cur = <<>> THEN acc ELSE Append(acc, cur))
    ELSE IF IsLineBreak(s[i])
         THEN IF s[i] = "\r" /\ i < Len(s) /\ s[i + 1] = "\n"
              THEN SplitFrom(s, i + 2, <<>>, Append(acc, cur))
              ELSE SplitFrom(s, i + 1, <<>>, Append(acc, cur))
    ELSE SplitFrom(s, i + 1, Append(cur, s[i]), acc)

splitlines(s) == SplitFrom(s, 1, <<>>, <<>>)

\* One regex element consumed at position pos of line: the next position, or
\* 0 when the element does not match there.
MatchLit(line, pos, c) ==
    IF pos >= 1 /\ pos <= Len(line) /\ line[pos] = c THEN pos + 1 ELSE 0

MatchDigit(line, pos) ==
    IF pos >= 1 /\ pos <= Len(line) /\ IsDigit(line[pos]) THEN pos + 1 ELSE 0

MatchDigit2(line, pos) == MatchDigit(line, MatchDigit(line, pos))

\* re.match(r"\[(\d{2}):(\d{2}\.\d{2})\](.*)", line): the position after "]",
\* or 0 for no match.  re.match anchors at the start of the line.
ReMatchEnd(line) ==
    LET p1 == MatchLit(line, 1, "[")
        p2 == MatchDigit2(line, p1)
        p3 == MatchLit(line, p2, ":")
        p4 == MatchDigit2(line, p3)
        p5 == MatchLit(line, p4, ".")
        p6 == MatchDigit2(line, p5)
    IN  MatchLit(line, p6, "]")

\* int(minutes) and float(seconds) of the groups, in milliseconds
GroupMinutes(line) == 10 * DigitVal(line[2]) + DigitVal(line[3])

GroupSeconds(line) ==
    10000 * DigitVal(line[5]) + 1000 * DigitVal(line[6])
        + 100 * DigitVal(line[8]) + 10 * DigitVal(line[9])

\* the tuple (time_in_seconds, text) appended for a matching line
LyricEntry(line) ==
    <<GroupMinutes(line) * 60000 + GroupSeconds(line),
      SubSeq(line, ReMatchEnd(line), Len(line))>>

RECURSIVE ParseLines(_, _)
ParseLines(lines, acc) ==
    IF lines = <<>> THEN acc
    ELSE IF ReMatchEnd(Head(lines)) # 0
         THEN ParseLines(Tail(lines), Append(acc, LyricEntry(Head(lines))))
         ELSE ParseLines(Tail(lines), acc)

\* variant: the first line that does not match ends the parse
RECURSIVE ParseLinesUntilBad(_, _)
ParseLinesUntilBad(lines, acc) ==
    IF lines = <<>> THEN acc
    ELSE IF ReMatchEnd(Head(lines)) # 0
         THEN ParseLinesUntilBad(Tail(lines), Append(acc, LyricEntry(Head(lines))))
         ELSE acc

parse_lrc_UntilBad(text) == ParseLinesUntilBad(splitlines(text), <<>>)

parse_lrc(text) == ParseLines(splitlines(text), <<>>)

(***************************************************************************)
(* The environment of the application                                      *)
(***************************************************************************)
NoneIdx == -1

PollInterval == 500
MaxNow == 1000
MaxBatch == 2

\* how far time.time() may have moved since it was last read
ClockDelays == {0, 500}

\* The files a user may hold: a name and what the content makes of the
\* processing each time it is attempted: "ok", or "corrupt" when a step of
\* the try block raises for it.
UploadedFile ==
    { [name |-> "a.mp3", kind |-> "ok"],
      [name |-> "b.wav", kind |-> "ok"],
      [name |-> "c.mp3", kind |-> "corrupt"] }

\* the steps of the try block that may raise for a file: saving it, probing
\* its duration, transcribing it
FailingSteps(file) ==
    IF file.kind = "corrupt" THEN {"save", "probe", "transcribe"} ELSE {}

RECURSIVE SeqsUpTo(_, _)
SeqsUpTo(S, n) ==
    IF n = 0 THEN {<<>>}
    ELSE LET shorter == SeqsUpTo(S, n - 1)
         IN  shorter \cup {Append(q, x) : q \in {r \in shorter : Len(r) = n - 1}, x \in S}

Batches == SeqsUpTo(UploadedFile, MaxBatch)

\* audio_info.info.length of a readable file, in milliseconds
AudioLength(file) == IF file.name = "a.mp3" THEN 500 ELSE 1000

\* result["segments"] of whisper.transcribe for a transcribable file
TranscribeSegments(file) ==
    IF file.name = "a.mp3"
    THEN << [start |-> 0, text |-> <<" ", "h", "i", " ">>],
            [start |-> 500, text |-> <<"y", "o">>] >>
    ELSE << [start |-> 500, text |-> <<"a">>],
            [start |-> 504, text |-> <<>>],
            [start |-> 1000, text |-> <<"a">>] >>

\* time.time(): a value not before the last one read
ClockReadings == {now + d : d \in ClockDelays} \cap 0..MaxNow

SongNames(songs) == [k \in 1..Len(songs) |-> songs[k].name]

InList(x, list) == \E k \in 1..Len(list) : list[k] = x

CurrentSong == processed_songs[current_song_index + 1]

(***************************************************************************)
(* Initial state: a new session whose first script run, with an empty      *)
(* uploader and nothing selected, has rendered the empty page              *)
(***************************************************************************)
InitSession ==
    /\ processed_songs = <<>>
    /\ current_song_index = NoneIdx
    /\ sync_started = FALSE
    /\ start_time = 0

InitPage ==
    /\ uploaded_files = <<>>
    /\ song_buttons = 0
    /\ play_button = FALSE
    /\ play_clicked = FALSE
    /\ pc = "wait"
    /\ processed_names = <<>>
    /\ did_process_a_file = FALSE
    /\ file_i = 0
    /\ lyrics_data = <<>>
    /\ loop_start_time = 0
    /\ progress = <<>>
    /\ current_lyric = <<>>
    /\ highlighted = {}
    /\ error_log = <<>>
    /\ transcribe_log = <<>>

InitLrcIdle ==
    /\ lrc_source = "none"
    /\ seg_in = <<>>
    /\ raw_in = <<>>
    /\ lrc_text = <<>>
    /\ lyrics_out = <<>>
    /\ lrc_pc = "idle"

Init ==
    /\ InitSession
    /\ InitPage
    /\ now = 0
    /\ InitLrcIdle

(***************************************************************************)
(* The script run: upload section                                          *)
(***************************************************************************)
\* Lines 13-74: a script run starts with a fresh namespace and hands the
\* renderer a fresh page; a non-empty uploader enters the processing loop
\* with the names already in the playlist.
EnterRun(files, songs) ==
    /\ error_log' = <<>>
    /\ transcribe_log' = <<>>
    /\ lyrics_data' = <<>>
    /\ loop_start_time' = 0
    /\ progress' = <<>>
    /\ current_lyric' = <<>>
    /\ highlighted' = {}
    /\ IF files # <<>>
       THEN /\ did_process_a_file' = FALSE
            /\ processed_names' = SongNames(songs)
            /\ file_i' = 1
            /\ pc' = "upload"
       ELSE /\ did_process_a_file' = FALSE
            /\ processed_names' = <<>>
            /\ file_i' = 0
            /\ pc' = "main"

\* the record appended at lines 103-110
SongRecord(file) ==
    [name |-> file.name,
     temp_audio_path |-> <<"/tmp/streamlit_uploads", file.name>>,
     duration |-> AudioLength(file),
     lrc_data |-> generate_lrc_content(TranscribeSegments(file))]

\* whisper.transcribe is invoked for the file although name is in the
\* playlist at that moment: the entry logged for an invocation
TranscribeCall(file) == <<file.name, InList(file.name, SongNames(processed_songs))>>

\* variant: the try block encloses the loop, a file that raises ends it
ProcessFile_AbortOnError ==
    /\ pc = "upload"
    /\ file_i <= Len(uploaded_files)
    /\ LET uploaded_file == uploaded_files[file_i]
       IN  IF ~InList(uploaded_file.name, processed_names)
           THEN /\ did_process_a_file' = TRUE
                /\ IF uploaded_file.kind = "ok"
                   THEN /\ transcribe_log' = Append(transcribe_log, TranscribeCall(uploaded_file))
                        /\ processed_songs' = Append(processed_songs, SongRecord(uploaded_file))
                        /\ error_log' = error_log
                        /\ file_i' = file_i + 1
                   ELSE /\ \E step \in FailingSteps(uploaded_file) :
                             /\ transcribe_log' =
                                  IF step = "transcribe"
                                  THEN Append(transcribe_log, TranscribeCall(uploaded_file))
                                  ELSE transcribe_log
                             /\ error_log' = Append(error_log,
                                                    <<file_i, uploaded_file.name, step>>)
                        /\ processed_songs' = processed_songs
                        /\ file_i' = Len(uploaded_files) + 1
           ELSE /\ file_i' = file_i + 1
                /\ UNCHANGED <<did_process_a_file, transcribe_log, processed_songs, error_log>>
    /\ UNCHANGED <<current_song_index, sync_started, start_time,
                   uploaded_files, song_buttons, play_button, play_clicked,
                   pc, processed_names,
                   lyrics_data, loop_start_time, progress, current_lyric,
                   highlighted, now>>
    /\ UNCHANGED lrcVars

\* variant: the new record is inserted at the head of the playlist
ProcessFile_InsertFirst ==
    /\ pc = "upload"
    /\ file_i <= Len(uploaded_files)
    /\ LET uploaded_file == uploaded_files[file_i]
       IN  IF ~InList(uploaded_file.name, processed_names)
           THEN /\ did_process_a_file' = TRUE
                /\ IF uploaded_file.kind = "ok"
                   THEN /\ transcribe_log' = Append(transcribe_log, TranscribeCall(uploaded_file))
                        /\ processed_songs' = <<SongRecord(uploaded_file)>> \o processed_songs
                        /\ error_log' = error_log
                   ELSE /\ \E step \in FailingSteps(uploaded_file) :
                             /\ transcribe_log' =
                                  IF step = "transcribe"
                                  THEN Append(transcribe_log, TranscribeCall(uploaded_file))
                                  ELSE transcribe_log
                             /\ error_log' = Append(error_log,
                                                    <<file_i, uploaded_file.name, step>>)
                        /\ processed_songs' = processed_songs
           ELSE UNCHANGED <<did_process_a_file, transcribe_log, processed_songs, error_log>>
    /\ file_i' = file_i + 1
    /\ UNCHANGED <<current_song_index, sync_started, start_time,
                   uploaded_files, song_buttons, play_button, play_clicked,
                   pc, processed_names,
                   lyrics_data, loop_start_time, progress, current_lyric,
                   highlighted, now>>
    /\ UNCHANGED lrcVars

\* Lines 75-118, one iteration of the loop over uploaded_files: a file whose
\* name is not in processed_names is saved, probed and transcribed and its
\* record appended, unless one of these steps raises, which is reported.
ProcessFile ==
    /\ pc = "upload"
    /\ file_i <= Len(uploaded_files)
    /\ LET uploaded_file == uploaded_files[file_i]
       IN  IF ~InList(uploaded_file.name, processed_names)
           THEN /\ did_process_a_file' = TRUE
                /\ IF uploaded_file.kind = "ok"
                   THEN /\ transcribe_log' = Append(transcribe_log, TranscribeCall(uploaded_file))
                        /\ processed_songs' = Append(processed_songs, SongRecord(uploaded_file))
                        /\ error_log' = error_log
                   ELSE /\ \E step \in FailingSteps(uploaded_file) :
                             /\ transcribe_log' =
                                  IF step = "transcribe"
                                  THEN Append(transcribe_log, TranscribeCall(uploaded_file))
                                  ELSE transcribe_log
                             /\ error_log' = Append(error_log,
                                                    <<file_i, uploaded_file.name, step>>)
                        /\ processed_songs' = processed_songs
           ELSE UNCHANGED <<did_process_a_file, transcribe_log, processed_songs, error_log>>
    /\ file_i' = file_i + 1
    /\ UNCHANGED <<current_song_index, sync_started, start_time,
                   uploaded_files, song_buttons, play_button, play_clicked,
                   pc, processed_names,
                   lyrics_data, loop_start_time, progress, current_lyric,
                   highlighted, now>>
    /\ UNCHANGED lrcVars

\* Lines 120-121: after the loop, st.rerun() when a file was attempted (the
\* rerun drops a pending click and starts the next run); otherwise the run
\* goes on to the playlist, the locals of the loop being read no more.
UploadEnd ==
    /\ pc = "upload"
    /\ file_i > Len(uploaded_files)
    /\ IF did_process_a_file
       THEN /\ play_clicked' = FALSE
            /\ EnterRun(uploaded_files, processed_songs)
       ELSE /\ pc' = "main"
            /\ processed_names' = <<>>
            /\ file_i' = 0
            /\ UNCHANGED <<play_clicked, did_process_a_file, error_log, transcribe_log,
                           lyrics_data, loop_start_time, progress, current_lyric,
                           highlighted>>
    /\ UNCHANGED <<processed_songs, current_song_index, sync_started, start_time,
                   uploaded_files, song_buttons, play_button, now>>
    /\ UNCHANGED lrcVars

(***************************************************************************)
(* The script run: playlist and playback section                           *)
(***************************************************************************)
\* Lines 138-142: the start action, st.rerun() included.
StartSync ==
    /\ sync_started' = TRUE
    /\ \E t \in ClockReadings : start_time' = t /\ now' = t
    /\ EnterRun(uploaded_files, processed_songs)

\* variant: every run that enters the sync loop stamps the start anew
EnterSyncLoop_Restamp ==
    /\ lyrics_data' = parse_lrc(CurrentSong.lrc_data)
    /\ \E t \in ClockReadings : start_time' = t /\ loop_start_time' = t /\ now' = t
    /\ pc' = "sync"
    /\ UNCHANGED <<sync_started, processed_names,
                   did_process_a_file, file_i, progress, current_lyric,
                   highlighted, error_log, transcribe_log>>

\* Lines 147-159: the run enters the sync loop.
EnterSyncLoop ==
    /\ lyrics_data' = parse_lrc(CurrentSong.lrc_data)
    /\ loop_start_time' = start_time
    /\ pc' = "sync"
    /\ UNCHANGED <<sync_started, start_time, now, processed_names,
                   did_process_a_file, file_i, progress, current_lyric,
                   highlighted, error_log, transcribe_log>>

\* the script run ends (sync_started is false or nothing is selected)
EndRun ==
    /\ pc' = "wait"
    /\ UNCHANGED <<sync_started, start_time, now, processed_names,
                   did_process_a_file, file_i, progress, current_lyric,
                   highlighted, error_log, transcribe_log, lyrics_data,
                   loop_start_time>>

\* Lines 123-159.
MainSection ==
    /\ pc = "main"
    /\ song_buttons' = Len(processed_songs)
    /\ play_clicked' = FALSE
    /\ IF current_song_index = NoneIdx
       THEN play_button' = FALSE /\ EndRun
       ELSE IF ~sync_started
            THEN /\ play_button' = TRUE
                 /\ IF play_clicked THEN StartSync ELSE EndRun
            ELSE play_button' = FALSE /\ EnterSyncLoop
    /\ UNCHANGED <<processed_songs, current_song_index, uploaded_files>>
    /\ UNCHANGED lrcVars

\* variant: the quotient without the clamp
Progress_NoClamp(elapsed, duration) == <<elapsed, duration>>

\* min(current_playback_time / song["duration"], 1.0) as a fraction <<n, d>>
Progress(elapsed, duration) ==
    IF elapsed > duration THEN <<1, 1>> ELSE <<elapsed, duration>>

\* Lines 168-173: the scan over lyrics_data from position k on, with the
\* break at the first line that is still ahead.
RECURSIVE ScanFrom(_, _, _, _)
ScanFrom(lines, k, elapsed, lyric) ==
    IF k > Len(lines) THEN lyric
    ELSE IF elapsed >= lines[k][1]
         THEN ScanFrom(lines, k + 1, elapsed, lines[k][2])
         ELSE lyric

\* variant: a line becomes current only after its offset has passed
RECURSIVE ScanFromStrict(_, _, _, _)
ScanFromStrict(lines, k, elapsed, lyric) ==
    IF k > Len(lines) THEN lyric
    ELSE IF elapsed > lines[k][1]
         THEN ScanFromStrict(lines, k + 1, elapsed, lines[k][2])
         ELSE lyric

CurrentLyric_Strict(lines, elapsed) == ScanFromStrict(lines, 1, elapsed, <<>>)

\* variant: the scan without the break, every line is compared
RECURSIVE ScanFromNoBreak(_, _, _, _)
ScanFromNoBreak(lines, k, elapsed, lyric) ==
    IF k > Len(lines) THEN lyric
    ELSE IF elapsed >= lines[k][1]
         THEN ScanFromNoBreak(lines, k + 1, elapsed, lines[k][2])
         ELSE ScanFromNoBreak(lines, k + 1, elapsed, lyric)

CurrentLyric_NoBreak(lines, elapsed) == ScanFromNoBreak(lines, 1, elapsed, <<>>)

CurrentLyric(lines, elapsed) == ScanFrom(lines, 1, elapsed, <<>>)

\* Lines 168-173: the position (1-based, 0 for none) of the line whose text
\* the scan assigned last, the line selected by the scan.
RECURSIVE ScanPositionFrom(_, _, _, _)
ScanPositionFrom(lines, k, elapsed, position) ==
    IF k > Len(lines) THEN position
    ELSE IF elapsed >= lines[k][1]
         THEN ScanPositionFrom(lines, k + 1, elapsed, k)
         ELSE position

ScanPosition(lines, elapsed) == ScanPositionFrom(lines, 1, elapsed, 0)

\* Lines 175-180: the lines rendered inside <mark>
Highlighted(lines, lyric) == {k \in 1..Len(lines) : lines[k][2] = lyric}

\* variant: the elapsed time is measured from the end of the previous
\* iteration instead of from start_time
PollTick_RestartClock ==
    /\ pc = "sync"
    /\ \E t \in ClockReadings :
         LET current_playback_time == t - now
             lyric == CurrentLyric(lyrics_data, current_playback_time)
         IN  /\ progress' = Progress(current_playback_time, CurrentSong.duration)
             /\ current_lyric' = lyric
             /\ highlighted' = Highlighted(lyrics_data, lyric)
             /\ now' = t + PollInterval
    /\ UNCHANGED <<processed_songs, current_song_index, sync_started, start_time,
                   uploaded_files, song_buttons, play_button, play_clicked,
                   pc, processed_names, did_process_a_file, file_i,
                   lyrics_data, loop_start_time, error_log, transcribe_log>>
    /\ UNCHANGED lrcVars

\* Lines 160-186, one iteration of the while loop, its sleep included.
PollTick ==
    /\ pc = "sync"
    /\ \E t \in ClockReadings :
         LET current_playback_time == t - loop_start_time
             lyric == CurrentLyric(lyrics_data, current_playback_time)
         IN  /\ progress' = Progress(current_playback_time, CurrentSong.duration)
             /\ current_lyric' = lyric
             /\ highlighted' = Highlighted(lyrics_data, lyric)
             /\ now' = t + PollInterval
    /\ UNCHANGED <<processed_songs, current_song_index, sync_started, start_time,
                   uploaded_files, song_buttons, play_button, play_clicked,
                   pc, processed_names, did_process_a_file, file_i,
                   lyrics_data, loop_start_time, error_log, transcribe_log>>
    /\ UNCHANGED lrcVars

(***************************************************************************)
(* User events; each interrupts the sync loop or wakes the finished        *)
(* script, and the script runs again from the top                          *)
(***************************************************************************)
ScriptInterruptible == pc \in {"wait", "sync"}

\* variant: the callback forgets to reset sync_started
set_current_song_KeepSync(index) ==
    /\ current_song_index' = index
    /\ sync_started' = sync_started

\* variant: the callback takes the button's number counted from 1
set_current_song_OneBased(index) ==
    /\ current_song_index' = index + 1
    /\ sync_started' = FALSE

\* Lines 61-63
set_current_song(index) ==
    /\ current_song_index' = index
    /\ sync_started' = FALSE

\* Line 129: the click on a rendered playlist button runs the callback.
SelectSong(i) ==
    /\ ScriptInterruptible
    /\ i \in 0..(song_buttons - 1)
    /\ set_current_song(i)
    /\ play_clicked' = FALSE
    /\ EnterRun(uploaded_files, processed_songs)
    /\ UNCHANGED <<processed_songs, start_time, uploaded_files, song_buttons,
                   play_button, now>>
    /\ UNCHANGED lrcVars

\* Line 139: the click on the rendered button; the rerun reads it as True.
PlayClick ==
    /\ ScriptInterruptible
    /\ play_button
    /\ play_clicked' = TRUE
    /\ EnterRun(uploaded_files, processed_songs)
    /\ UNCHANGED <<processed_songs, current_song_index, sync_started, start_time,
                   uploaded_files, song_buttons, play_button, now>>
    /\ UNCHANGED lrcVars

\* Lines 68-70: the user changes the files held by the uploader.
Upload(batch) ==
    /\ ScriptInterruptible
    /\ batch # uploaded_files
    /\ uploaded_files' = batch
    /\ play_clicked' = FALSE
    /\ EnterRun(batch, processed_songs)
    /\ UNCHANGED <<processed_songs, current_song_index, sync_started, start_time,
                   song_buttons, play_button, now>>
    /\ UNCHANGED lrcVars

ScriptStep == ProcessFile \/ UploadEnd \/ MainSection \/ PollTick

Next ==
    \/ ProcessFile
    \/ UploadEnd
    \/ MainSection
    \/ PollTick
    \/ \E i \in 0..(2 * MaxBatch) : SelectSong(i)
    \/ PlayClick
    \/ \E batch \in Batches : Upload(batch)

Spec == Init /\ [][Next]_vars

\* A session in which the user only uploads.  The script thread runs
\* whenever it can: a started run goes on to its next step.
UploadScriptStep == ProcessFile \/ UploadEnd \/ MainSection

NextUpload ==
    \/ ProcessFile
    \/ UploadEnd
    \/ MainSection
    \/ \E batch \in Batches : Upload(batch)

FairUploadSpec == Init /\ [][NextUpload]_vars /\ WF_vars(UploadScriptStep)

(***************************************************************************)
(* The formatter and the parser on their own: the segments of a            *)
(* transcription, or the lines of an LRC text, are drawn from bounded      *)
(* sets; the actions apply generate_lrc_content and parse_lrc              *)
(***************************************************************************)
SegStarts == {0, 1239, 7500, 59999, 65500, 5999990, 6000000}

SegTexts == { <<"a">>, <<" ", "h", "i", " ">>, <<" ">>, <<>> }

Segments == [start : SegStarts, text : SegTexts]

RawLines ==
    { <<"[", "0", "0", ":", "0", "7", ".", "5", "0", "]", "h", "i">>,
      <<"[", "0", "1", ":", "0", "5", ".", "5", "0", "]", "a">>,
      <<"[", "0", "0", ":", "6", "0", ".", "0", "0", "]">>,
      <<"n", "o">>,
      <<>>,
      <<"[", "1", ":", "2", ".", "3", "]", "h", "i">>,
      <<"[", "1", "0", "0", ":", "0", "0", ".", "0", "0", "]", "a">>,
      <<" ", "[", "0", "0", ":", "0", "1", ".", "0", "0", "]", "a">>,
      <<"[", "0", "0", ":", "0", "1", ".", "0", "]", "a">> }

LineSeparators == { <<"\n">>, <<"\r", "\n">> }

InitLrc ==
    /\ InitSession
    /\ InitPage
    /\ now = 0
    /\ \/ lrc_source = "segments" /\ seg_in \in SeqsUpTo(Segments, MaxSegs) /\ raw_in = <<>>
       \/ lrc_source = "raw" /\ seg_in = <<>> /\ raw_in \in SeqsUpTo(RawLines, MaxRawLines)
    /\ lrc_text = <<>>
    /\ lyrics_out = <<>>
    /\ lrc_pc = "input"

\* line 101: lrc_data = generate_lrc_content(result["segments"])
FormatSegments ==
    /\ lrc_pc = "input"
    /\ lrc_source = "segments"
    /\ lrc_text' = generate_lrc_content(seg_in)
    /\ lrc_pc' = "text"
    /\ UNCHANGED <<lrc_source, seg_in, raw_in, lyrics_out>>
    /\ UNCHANGED appVars

\* an LRC text made of the lines raw_in, with or without a final line break
LoadText ==
    /\ lrc_pc = "input"
    /\ lrc_source = "raw"
    /\ \E sep \in LineSeparators, final \in {<<>>, <<"\n">>} :
         lrc_text' = JoinLines(raw_in, sep) \o final
    /\ lrc_pc' = "text"
    /\ UNCHANGED <<lrc_source, seg_in, raw_in, lyrics_out>>
    /\ UNCHANGED appVars

\* line 158: lyrics_data = parse_lrc(song["lrc_data"])
ParseText ==
    /\ lrc_pc = "text"
    /\ lyrics_out' = parse_lrc(lrc_text)
    /\ lrc_pc' = "parsed"
    /\ UNCHANGED <<lrc_source, seg_in, raw_in, lrc_text>>
    /\ UNCHANGED appVars

NextLrc == FormatSegments \/ LoadText \/ ParseText

SpecLrc == InitLrc /\ [][NextLrc]_vars

(***************************************************************************)
(* The sync loop on its own: a playlist of one song whose transcription    *)
(* is drawn from a bounded set, selected and started at time 0             *)
(***************************************************************************)
SyncStarts == {0, 500, 1000}

SyncTexts == { <<"a">>, <<"b">>, <<>> }

SyncDurations == {500, 1000}

SyncSong(segments, duration) ==
    [name |-> "a.mp3",
     temp_audio_path |-> <<"/tmp/streamlit_uploads", "a.mp3">>,
     duration |-> duration,
     lrc_data |-> generate_lrc_content(segments)]

InitSync ==
    /\ \E segments \in SeqsUpTo([start : SyncStarts, text : SyncTexts], MaxTrack),
          duration \in SyncDurations :
         /\ processed_songs = <<SyncSong(segments, duration)>>
         /\ lyrics_data = parse_lrc(generate_lrc_content(segments))
    /\ current_song_index = 0
    /\ sync_started = TRUE
    /\ start_time = 0
    /\ uploaded_files = <<>>
    /\ song_buttons = 1
    /\ play_button = FALSE
    /\ play_clicked = FALSE
    /\ pc = "sync"
    /\ processed_names = <<>>
    /\ did_process_a_file = FALSE
    /\ file_i = 0
    /\ loop_start_time = 0
    /\ progress = <<>>
    /\ current_lyric = <<>>
    /\ highlighted = {}
    /\ error_log = <<>>
    /\ transcribe_log = <<>>
    /\ now = 0
    /\ InitLrcIdle

NextSync == PollTick

SpecSync == InitSync /\ [][NextSync]_vars

(***************************************************************************)
(* Properties                                                              *)
(***************************************************************************)
Abs(x) == IF x < 0 THEN -x ELSE x

\* a time in milliseconds truncated to 2 decimal places of a second
TruncCs(ms) == (ms \div 10) * 10

FormattedAndParsed == lrc_pc = "parsed" /\ lrc_source = "segments"

\* C1: round trip of a single segment (start >= 0, non-empty trimmed text):
\* parse_lrc(generate_lrc_content([segment])) is exactly one entry, whose
\* offset is start truncated to 2 decimal places (within 0.005 s) and whose
\* text is the stripped segment text.
C1_RoundTrip ==
    (FormattedAndParsed /\ Len(seg_in) = 1 /\ Strip(seg_in[1].text) # <<>>)
        => /\ Len(lyrics_out) = 1
           /\ Abs(lyrics_out[1][1] - TruncCs(seg_in[1].start)) <= 5
           /\ lyrics_out[1][2] = Strip(seg_in[1].text)

\* C2: lyric lines are derived 1:1 from the segments, starts of 100 minutes
\* or more included: as many entries as segments, the i-th entry carrying
\* the stripped text of the i-th segment.
C2_OneToOne ==
    FormattedAndParsed
        => /\ Len(lyrics_out) = Len(seg_in)
           /\ \A i \in 1..Len(seg_in) : lyrics_out[i][2] = Strip(seg_in[i].text)

\* the shape "[" 2 digits ":" 2 digits "." 2 digits "]" text, by position
IsLrcLine(line) ==
    /\ Len(line) >= 10
    /\ line[1] = "[" /\ line[4] = ":" /\ line[7] = "." /\ line[10] = "]"
    /\ \A k \in {2, 3, 5, 6, 8, 9} : IsDigit(line[k])

TimeOfLrcLine(line) ==
    (10 * DigitVal(line[2]) + DigitVal(line[3])) * 60000
        + (10 * DigitVal(line[5]) + DigitVal(line[6])) * 1000
        + (10 * DigitVal(line[8]) + DigitVal(line[9])) * 10

MatchingLines(lines) == SelectSeq(lines, IsLrcLine)

\* C6: parse_lrc returns exactly the order-preserving subsequence of the
\* input lines that have the shape [MM:SS.ss]text, each as (offset, text);
\* a line of another shape is dropped and changes nothing for later lines.
C6_ParseSubsequence ==
    (lrc_pc = "parsed" /\ lrc_source = "raw")
        => LET kept == MatchingLines(raw_in)
           IN  /\ Len(lyrics_out) = Len(kept)
               /\ \A k \in 1..Len(kept) :
                    /\ lyrics_out[k][1] = TimeOfLrcLine(kept[k])
                    /\ lyrics_out[k][2] = SubSeq(kept[k], 11, Len(kept[k]))

\* a valid line, then a malformed one, then another valid line: both valid
\* lines come out, in their order
C6_Witness ==
    /\ lrc_pc = "parsed" /\ lrc_source = "raw"
    /\ Len(raw_in) = 3
    /\ IsLrcLine(raw_in[1]) /\ ~IsLrcLine(raw_in[2]) /\ IsLrcLine(raw_in[3])
    /\ raw_in[2] # <<>>
    /\ raw_in[1] # raw_in[3]
    /\ Len(lyrics_out) = 2
    /\ lyrics_out[1][1] > lyrics_out[2][1]

\* the elapsed time the last poll tick computed
LastPlaybackTime == now - PollInterval - loop_start_time

Polled == pc = "sync" /\ progress # <<>>

SortedByOffset(lines) ==
    \A i, j \in 1..Len(lines) : i < j => lines[i][1] <= lines[j][1]

\* the text of the last line whose offset <= elapsed, "" when there is none
LastLineNotAfter(lines, elapsed) ==
    LET passed == {k \in 1..Len(lines) : lines[k][1] <= elapsed}
    IN  IF passed = {} THEN <<>>
        ELSE lines[CHOOSE k \in passed : \A m \in passed : m <= k][2]

\* C3: on a track sorted ascending by offset the current lyric of a poll
\* tick is the text of the last line whose offset <= elapsed, and is empty
\* before the first line's offset or on an empty track.
C3_ActiveLine ==
    (Polled /\ SortedByOffset(lyrics_data))
        => current_lyric = LastLineNotAfter(lyrics_data, LastPlaybackTime)

\* three lines at increasing offsets, polled exactly at the second offset
C3_Witness ==
    /\ Polled
    /\ Len(lyrics_data) = 3
    /\ lyrics_data[1][1] < lyrics_data[2][1] /\ lyrics_data[2][1] < lyrics_data[3][1]
    /\ LastPlaybackTime = lyrics_data[2][1]
    /\ lyrics_data[1][2] # lyrics_data[2][2]
    /\ current_lyric = lyrics_data[2][2]

HasDuplicateNames(songs) ==
    \E i, j \in 1..Len(songs) : i # j /\ songs[i].name = songs[j].name

\* C4: idempotent upload: after any sequence of upload batches the playlist
\* never holds two song records with the same name, and transcription is
\* never invoked for a name that is already in the playlist.
C4_IdempotentUpload ==
    /\ ~HasDuplicateNames(processed_songs)
    /\ \A k \in 1..Len(transcribe_log) : ~transcribe_log[k][2]

\* the files of the batch the loop has been through, by position
FilesDone == [j \in 1..(file_i - 1) |-> j]

IsNewFile(j) == ~InList(uploaded_files[j].name, processed_names)

SucceededFiles ==
    SelectSeq(FilesDone, LAMBDA j : IsNewFile(j) /\ uploaded_files[j].kind = "ok")

FailedFiles ==
    SelectSeq(FilesDone, LAMBDA j : IsNewFile(j) /\ uploaded_files[j].kind # "ok")

\* C5: per-file failure isolation: at every point of the upload loop the
\* playlist is the playlist the loop started from followed by one record per
\* new file that succeeded so far, in batch order, and exactly the new files
\* that raised are reported, each with its name; a file that raises adds no
\* record and the files after it are still processed.
C5_FailureIsolation ==
    pc = "upload"
        => LET base == Len(processed_names)
           IN  /\ Len(processed_songs) = base + Len(SucceededFiles)
               /\ \A k \in 1..base : processed_songs[k].name = processed_names[k]
               /\ \A r \in 1..Len(SucceededFiles) :
                    processed_songs[base + r].name = uploaded_files[SucceededFiles[r]].name
               /\ Len(error_log) = Len(FailedFiles)
               /\ \A r \in 1..Len(FailedFiles) :
                    /\ error_log[r][1] = FailedFiles[r]
                    /\ error_log[r][2] = uploaded_files[FailedFiles[r]].name

\* a batch of two new files: the first raises, the second is appended
C5_Witness ==
    /\ pc = "upload"
    /\ Len(uploaded_files) = 2 /\ file_i = 3
    /\ IsNewFile(1) /\ uploaded_files[1].kind # "ok"
    /\ IsNewFile(2) /\ uploaded_files[2].kind = "ok"
    /\ Len(error_log) = 1 /\ error_log[1][2] = uploaded_files[1].name
    /\ Len(processed_songs) = Len(processed_names) + 1
    /\ processed_songs[Len(processed_songs)].name = uploaded_files[2].name

\* C7: progress clamping: the progress value of a poll tick on a song of
\* positive duration is min(elapsed / duration, 1.0), lies in [0, 1], and is
\* 1.0 whenever elapsed >= duration.
C7_ProgressClamped ==
    (Polled /\ CurrentSong.duration > 0)
        => LET elapsed == LastPlaybackTime
               duration == CurrentSong.duration
           IN  /\ progress[2] > 0
               /\ 0 <= progress[1] /\ progress[1] <= progress[2]
               /\ elapsed >= duration => progress[1] = progress[2]
               /\ elapsed < duration => progress[1] * duration = elapsed * progress[2]

\* a poll tick after the end of the song
C7_Witness ==
    /\ Polled
    /\ LastPlaybackTime > CurrentSong.duration
    /\ progress = <<1, 1>>

SessionState ==
    IF current_song_index = NoneIdx /\ ~sync_started THEN "Idle"
    ELSE IF ~sync_started THEN "Selected"
    ELSE "Syncing"

\* one step of the session state machine
C8_Step ==
    /\ \A i \in 0..(2 * MaxBatch) :
         SelectSong(i) => current_song_index' = i /\ ~sync_started'
    /\ (~sync_started /\ sync_started')
         => /\ SessionState = "Selected"
            /\ pc = "main" /\ play_clicked
            /\ current_song_index' = current_song_index
    /\ PollTick => SessionState = "Syncing" /\ SessionState' = "Syncing"
    /\ (sync_started /\ ~sync_started') => \E i \in 0..(song_buttons - 1) : SelectSong(i)

\* C8: session state machine: selecting a song from any state sets the
\* current index and resets sync_started; Syncing is entered only by the
\* start action taken in Selected; poll ticks occur only in Syncing and do
\* not leave it; only a selection ends Syncing.
C8_StateMachine ==
    /\ [][C8_Step]_vars
    /\ [](pc = "sync" => SessionState = "Syncing")

\* the second song of the playlist is selected, started and polled
C8_Witness ==
    /\ SessionState = "Syncing"
    /\ Polled
    /\ current_song_index = 1

\* C9: start_time is written only by the start action, taken while
\* sync_started is false; while sync_started stays true no step changes it,
\* and every poll tick of the session measures from it.
C9_Step ==
    /\ start_time' # start_time
         => ~sync_started /\ sync_started' /\ pc = "main" /\ play_clicked
    /\ (sync_started /\ sync_started') => start_time' = start_time
    /\ PollTick => loop_start_time = start_time /\ loop_start_time' = start_time'

C9_StartTimeFixed == [][C9_Step]_vars

\* a session started at 0.5 s, polled half a second later, with a batch in
\* the uploader
C9_Witness ==
    /\ sync_started
    /\ Polled
    /\ uploaded_files # <<>>
    /\ start_time = 500
    /\ LastPlaybackTime = 500

\* C10: upload processing of a submitted batch runs to completion: after
\* finitely many reruns the script run reaches the playlist section.
C10_BatchCompletes == (pc = "upload") ~> (pc = "main")

\* C11: before the first lyric line: on a poll tick whose elapsed time is
\* smaller than the first line's offset no line of the rendered lyrics is
\* highlighted, whatever the track, lines with empty text included.
C11_NoHighlightBeforeFirstLine ==
    (Polled /\ lyrics_data # <<>> /\ LastPlaybackTime < lyrics_data[1][1])
        => highlighted = {}

\* the text of the line at a position, "" for position 0
TextAt(lines, position) == IF position = 0 THEN <<>> ELSE lines[position][2]

\* one poll tick that follows another one
C12_Moves ==
    LET before == ScanPosition(lyrics_data, LastPlaybackTime)
        after == ScanPosition(lyrics_data', LastPlaybackTime')
    IN  /\ LastPlaybackTime' >= LastPlaybackTime
        /\ before <= after
        /\ current_lyric = TextAt(lyrics_data, before)
        /\ current_lyric' = TextAt(lyrics_data', after)

C12_StepAsClaimed ==
    (Polled /\ PollTick)
        => /\ C12_Moves
           /\ ScanPosition(lyrics_data, LastPlaybackTime) >= 1 => current_lyric' # <<>>

\* C12 (as stated): the active line never moves backwards within one playback
\* session: for any track, sorted or not, across successive poll ticks the
\* elapsed time is non-decreasing, the position of the line selected by the
\* scan is non-decreasing, and once a line has been active the current lyric
\* is never empty again.
C12_NeverBackwards == [][C12_StepAsClaimed]_vars

C12_Step ==
    (Polled /\ PollTick)
        => /\ C12_Moves
           /\ ScanPosition(lyrics_data, LastPlaybackTime) >= 1
                => LET after == ScanPosition(lyrics_data', LastPlaybackTime')
                   IN  /\ after >= 1
                       /\ current_lyric' = <<>> => lyrics_data'[after][2] = <<>>

\* C12 (amended): across successive poll ticks the elapsed time and the
\* position of the line selected by the scan are non-decreasing and the
\* current lyric is the text of the line at that position; once a line has
\* been active a line stays active, and the current lyric is empty again
\* only when the text of the active line is empty.
C12_NeverBackwardsOrEmptyLine == [][C12_Step]_vars

\* an unsorted track polled at 1 s after a tick with the first line active:
\* the scan has moved on to the third line, whose text is empty
C12_Witness ==
    /\ Polled
    /\ Len(lyrics_data) = 3
    /\ ~SortedByOffset(lyrics_data)
    /\ LastPlaybackTime = 1000
    /\ ScanPosition(lyrics_data, 0) = 1
    /\ ScanPosition(lyrics_data, 500) = 1
    /\ ScanPosition(lyrics_data, 1000) = 3
    /\ lyrics_data[1][2] # <<>>
    /\ current_lyric = <<>>

\* the length of the longest prefix of the track whose offsets are all
\* <= elapsed
PrefixLen(lines, elapsed) ==
    CHOOSE n \in 0..Len(lines) :
        /\ \A k \in 1..n : lines[k][1] <= elapsed
        /\ n < Len(lines) => lines[n + 1][1] > elapsed

\* C13: short-circuit scan on a track in any order: the current lyric of a
\* poll tick is the text of the last line of the longest prefix whose
\* offsets are all <= elapsed ("" when that prefix is empty); a line after
\* the first line whose offset exceeds elapsed is not selected even if its
\* own offset is <= elapsed.
C13_PrefixScan ==
    Polled
        => LET n == PrefixLen(lyrics_data, LastPlaybackTime)
           IN  current_lyric = (IF n = 0 THEN <<>> ELSE lyrics_data[n][2])

\* an unsorted track: a line behind the first line still ahead has an offset
\* that has passed, and the current lyric is the text of the line before
C13_Witness ==
    /\ Polled
    /\ LET n == PrefixLen(lyrics_data, LastPlaybackTime)
       IN  /\ n >= 1
           /\ \E k \in (n + 2)..Len(lyrics_data) :
                /\ lyrics_data[k][1] <= LastPlaybackTime
                /\ lyrics_data[k][2] # lyrics_data[n][2]
           /\ current_lyric = lyrics_data[n][2]
           /\ current_lyric # <<>>

\* the position of the first occurrence of c in s, 0 when there is none
IndexOf(s, c) ==
    IF \E k \in 1..Len(s) : s[k] = c
    THEN CHOOSE k \in 1..Len(s) : s[k] = c /\ \A m \in 1..(k - 1) : s[m] # c
    ELSE 0

\* the number a non-empty string of decimal digits denotes
RECURSIVE DecimalValue(_)
DecimalValue(s) ==
    IF Len(s) = 1 THEN DigitVal(s[1])
    ELSE 10 * DecimalValue(SubSeq(s, 1, Len(s) - 1)) + DigitVal(s[Len(s)])

\* the text between "[" and the first ":" of an emitted line
MinutesField(line) == SubSeq(line, 2, IndexOf(line, ":") - 1)

\* the text between the first ":" and the first "]" of an emitted line
SecondsField(line) == SubSeq(line, IndexOf(line, ":") + 1, IndexOf(line, "]") - 1)

\* the shape SS.ss, 5 characters
IsSecondsField(f) ==
    /\ Len(f) = 5
    /\ f[3] = "."
    /\ \A k \in {1, 2, 4, 5} : IsDigit(f[k])

\* the value of a field SS.ss in centiseconds
SecondsFieldCs(f) ==
    1000 * DigitVal(f[1]) + 100 * DigitVal(f[2]) + 10 * DigitVal(f[4]) + DigitVal(f[5])

\* C14: formatter field ranges: for every segment with start >= 0 the line
\* emitted by generate_lrc_content has minutes = floor(start / 60) and a
\* seconds field SS.ss of exactly 5 characters that denotes a value with
\* 0 <= seconds < 60 (a start of 59.999 s never yields 60.00).
C14_FieldRanges ==
    (lrc_pc \in {"text", "parsed"} /\ lrc_source = "segments")
        => LET lines == splitlines(lrc_text)
           IN  /\ Len(lines) = Len(seg_in)
               /\ \A i \in 1..Len(seg_in) :
                    LET line == lines[i]
                        mm == MinutesField(line)
                        ss == SecondsField(line)
                    IN  /\ line[1] = "["
                        /\ mm # <<>> /\ \A k \in 1..Len(mm) : IsDigit(mm[k])
                        /\ DecimalValue(mm) = seg_in[i].start \div 60000
                        /\ IsSecondsField(ss)
                        /\ SecondsFieldCs(ss) < 6000

\* one step seen from the playlist
C15_Step ==
    \/ processed_songs' = processed_songs
    \/ /\ pc = "upload" /\ pc' = "upload"
       /\ file_i <= Len(uploaded_files) /\ file_i' = file_i + 1
       /\ uploaded_files[file_i].kind = "ok"
       /\ Len(processed_songs') = Len(processed_songs) + 1
       /\ SubSeq(processed_songs', 1, Len(processed_songs)) = processed_songs
       /\ processed_songs'[Len(processed_songs')].name = uploaded_files[file_i].name

\* C15: the playlist is append-only: no event (upload batch, selection,
\* start, poll tick, rerun) removes, reorders or changes an existing song
\* record; the only change to the playlist is one new record appended at the
\* end by the upload loop for a file that was processed successfully.
C15_AppendOnly == [][C15_Step]_vars

\* two songs processed in order, the files then taken out of the uploader,
\* the first song selected, started and polled: both records are still there
C15_Witness ==
    /\ Polled
    /\ uploaded_files = <<>>
    /\ Len(processed_songs) = 2
    /\ processed_songs[1].name = "a.mp3" /\ processed_songs[2].name = "b.wav"
    /\ current_song_index = 0

\* C16: selection validity: in every reachable session state
\* current_song_index is None or a valid index into the playlist
\* (0 <= index < number of song records), so the lookup of the current song
\* never goes out of range; sync_started is true only when
\* current_song_index is not None.
C16_SelectionValid ==
    /\ \/ current_song_index = NoneIdx
       \/ 0 <= current_song_index /\ current_song_index < Len(processed_songs)
    /\ sync_started => current_song_index # NoneIdx
    /\ (pc = "sync") => current_song_index + 1 \in DOMAIN processed_songs

\* the last song of a playlist of two is selected and started, and the sync
\* loop has looked its record up
C16_Witness ==
    /\ pc = "sync"
    /\ sync_started
    /\ Len(processed_songs) = 2
    /\ current_song_index = Len(processed_songs) - 1
    /\ lyrics_data = parse_lrc(processed_songs[2].lrc_data)
    /\ lyrics_data # <<>>

====
